---- MODULE Spec2Model ----
(***************************************************************************)
(* A model of the MSSQL tool server of src/server.py: the catalogue        *)
(* (list_tools), the dispatcher (call_tool) and the eight handlers, each   *)
(* run step by step against a database whose calls (connect, execute,      *)
(* commit, rollback, close) may each succeed or raise.                     *)
(*                                                                         *)
(* Text (identifiers, SQL, messages) is a sequence of fragments: a literal *)
(* of the source is one fragment, caller-supplied text is one fragment per *)
(* character, so that interpolation and concatenation are what they are in *)
(* the source.                                                             *)
(***************************************************************************)
EXTENDS Integers, Sequences, FiniteSets, TLC

\* Bounds of the model.
MaxRows == 2
MaxCols == 2
MaxConn == 2
MaxSchemas == 1

(***************************************************************************)
(* Generic helpers                                                         *)
(***************************************************************************)
SeqsUpTo(S, n) == UNION {[1..k -> S] : k \in 0..n}

Restrict(f, D) == [x \in D |-> f[x]]

RECURSIVE Join(_, _)
\* sep.join(parts), parts a sequence of texts
Join(parts, sep) ==
    IF Len(parts) = 0 THEN <<>>
    ELSE IF Len(parts) = 1 THEN parts[1]
    ELSE parts[1] \o sep \o Join(Tail(parts), sep)

Digits == <<"0", "1", "2", "3", "4", "5", "6", "7", "8", "9">>

RECURSIVE ToStr(_)
\* str(n) of a natural number, one fragment per digit
ToStr(n) ==
    IF n < 10 THEN <<Digits[n + 1]>>
    ELSE ToStr(n \div 10) \o <<Digits[(n % 10) + 1]>>

\* A Python dict: a sequence of <<key, value>> pairs in insertion order.
Keys(d) == [i \in 1..Len(d) |-> d[i][1]]
Values(d) == [i \in 1..Len(d) |-> d[i][2]]
HasKey(d, k) == \E i \in 1..Len(d) : d[i][1] = k
Get(d, k) == d[CHOOSE i \in 1..Len(d) : d[i][1] = k][2]

\* str(KeyError(k))
KeyErrorText(k) == <<"'">> \o k \o <<"'">>

(***************************************************************************)
(* Inputs: operation names and argument bags                               *)
(***************************************************************************)
ReadTools == <<"list_table", "describe_table", "read_data">>
WriteTools == <<"insert_data", "update_data", "create_table", "create_index",
                "drop_table">>
Range(s) == {s[i] : i \in 1..Len(s)}
ToolNames == Range(ReadTools) \cup Range(WriteTools)
UnknownNames == {"bogus"}
Names == ToolNames \cup UnknownNames

\* Identifiers, one fragment per character.
SafeTable == <<"t">>
UnsafeTable == <<"t", ";", "x">>
Tables == {SafeTable, UnsafeTable}
ColA == <<"a">>
ColB == <<"b">>
ColQ == <<"c", "'">>
IndexNames == {<<"i">>, <<"i", ";">>}
UnsafeChars == {";", "'"}
IsUnsafe(ident) == \E i \in 1..Len(ident) : ident[i] \in UnsafeChars
Identifiers == Tables \cup {ColA, ColB, ColQ} \cup IndexNames

\* Queries given to read_data, one fragment per character.
Queries ==
    { <<"S", "E", "L", "E", "C", "T", " ", "1">>,
      <<" ", "s", "e", "l", "e", "c", "t", " ", "1", " ">>,
      <<"\n", "\t", "S", "e", "L", "e", "c", "t">>,
      <<"S", "E", "L", "E", "C", "T", "E", "D">>,
      <<"I", "N", "S", "E", "R", "T", " ", "x">>,
      <<"X", "S", "E", "L", "E", "C", "T">>,
      <<"S", "E", "L">>,
      <<" ", " ">>,
      <<>> }

\* Rows given to insert_data.
RowA1 == <<<<ColA, 1>>>>
RowA2 == <<<<ColA, 2>>>>
RowB1 == <<<<ColB, 1>>>>
RowQ1 == <<<<ColQ, 1>>>>
Rows == {RowA1, RowA2, RowB1, RowQ1}
\* data is one dict or a list of dicts
DataValues ==
    {[kind |-> "dict", dict |-> row] : row \in Rows}
    \cup {[kind |-> "list", list |-> rs] : rs \in SeqsUpTo(Rows, MaxRows)}

UpdateValues == {<<>>, <<<<ColA, 1>>>>, <<<<ColA, 1>>, <<ColB, 2>>>>,
                 <<<<ColQ, 1>>>>}
WhereClauses == {<<"i", "d", "=", "1">>}

IntType == <<"I", "N", "T">>
ColumnSpecs ==
    { [name |-> ColA, type |-> IntType],
      [name |-> ColA, type |-> IntType, primaryKey |-> TRUE],
      [name |-> ColB, type |-> IntType, nullable |-> FALSE, primaryKey |-> TRUE],
      [name |-> ColB, type |-> IntType, nullable |-> TRUE, primaryKey |-> FALSE],
      [name |-> ColQ, type |-> IntType],
      [type |-> IntType] }

Schemas == {<<"d", "b", "o">>}

FullBags(name) ==
    CASE name = "list_table" ->
            {[parameters |-> s] : s \in SeqsUpTo(Schemas, MaxSchemas)}
      [] name = "describe_table" -> {[tableName |-> t] : t \in Tables}
      [] name = "read_data" -> {[query |-> q] : q \in Queries}
      [] name = "insert_data" ->
            {[tableName |-> t, data |-> d] : t \in Tables, d \in DataValues}
      [] name = "update_data" ->
            {[tableName |-> t, updates |-> u, whereClause |-> w] :
                t \in Tables, u \in UpdateValues, w \in WhereClauses}
      [] name = "create_table" ->
            {[tableName |-> t, columns |-> cs] :
                t \in Tables, cs \in SeqsUpTo(ColumnSpecs, MaxCols)}
      [] name = "create_index" ->
            {[tableName |-> t, indexName |-> i, columns |-> cs, unique |-> u] :
                t \in {SafeTable}, i \in IndexNames,
                cs \in {<<ColA>>, <<ColA, ColB>>, <<ColQ>>}, u \in BOOLEAN}
      [] name = "drop_table" -> {[tableName |-> t] : t \in Tables}
      [] OTHER -> {[tableName |-> t] : t \in {SafeTable}}

\* Every argument bag: a full one, or one with any of its fields left out.
ArgBags(name) ==
    UNION {{Restrict(b, D) : D \in SUBSET (DOMAIN b)} : b \in FullBags(name)}

(***************************************************************************)
(* What the database may hand back to a read                               *)
(***************************************************************************)
\* cursor.fetchall() of list_tables: (schema, table) pairs
FetchedTables == {<<>>, <<<<<<"d", "b", "o">>, SafeTable>>>>}
\* cursor.fetchall() of describe_table; max_len 0 and default <<>> are None
FetchedColumns ==
    { <<>>,
      <<[col_name |-> ColA, data_type |-> <<"int">>, max_len |-> 0,
         nullable |-> "NO", default |-> <<>>]>>,
      <<[col_name |-> ColB, data_type |-> <<"varchar">>, max_len |-> 5,
         nullable |-> "YES", default |-> <<"''">>]>> }
\* cursor.fetchall() of read_data, each row already serialised
FetchedRows == {<<>>, <<<<"{}">>>>}
\* cursor.rowcount after an UPDATE
RowCounts == {0, 1}

\* str(e) of the errors the database driver raises
ConnectError == <<"connect failed">>
ExecuteError == <<"execute failed">>
CommitError == <<"commit failed">>
RollbackError == <<"rollback failed">>
CloseError == <<"close failed">>
NoError == <<>>

(***************************************************************************)
(* list_tools and the routing of call_tool                                 *)
(***************************************************************************)
\* list_tools without its "if not READONLY".
list_tools_unfiltered(readonly) == ReadTools \o WriteTools

list_tools(readonly) ==
    IF ~readonly THEN ReadTools \o WriteTools ELSE ReadTools

\* Routed without the "and not READONLY" of the write branches.
RoutedIgnoringReadonly(name, readonly) == name \in ToolNames

\* Routed of a dispatcher that has only the read branches.
RoutedReadsOnly(name, readonly) == name \in Range(ReadTools)

\* The elif chain of call_tool: TRUE when a handler branch is taken.
Routed(name, readonly) ==
    \/ name \in Range(ReadTools)
    \/ name \in Range(WriteTools) /\ ~readonly

\* The "required" lists of the inputSchema each tool advertises.
DeclaredRequired(name) ==
    CASE name = "describe_table" -> {"tableName"}
      [] name = "read_data" -> {"query"}
      [] name = "insert_data" -> {"tableName", "data"}
      [] name = "update_data" -> {"tableName", "updates", "whereClause"}
      [] name = "create_table" -> {"tableName", "columns"}
      [] name = "create_index" -> {"tableName", "indexName", "columns"}
      [] name = "drop_table" -> {"tableName"}
      [] OTHER -> {}

\* The "required" list of an item of create_table's columns.
DeclaredColumnRequired == {"name", "type"}

\* The subscripts arguments[...] a branch evaluates, in evaluation order.
RequiredArgs(name) ==
    CASE name = "describe_table" -> <<"tableName">>
      [] name = "read_data" -> <<"query">>
      [] name = "insert_data" -> <<"tableName", "data">>
      [] name = "update_data" -> <<"tableName", "updates", "whereClause">>
      [] name = "create_table" -> <<"tableName", "columns">>
      [] name = "create_index" -> <<"tableName", "indexName", "columns">>
      [] name = "drop_table" -> <<"tableName">>
      [] OTHER -> <<>>

MissingArgs(name, arguments) ==
    {i \in 1..Len(RequiredArgs(name)) : RequiredArgs(name)[i] \notin DOMAIN arguments}

Min(S) == CHOOSE x \in S : \A y \in S : x <= y

\* The key of the KeyError the branch raises (MissingArgs non-empty).
FirstMissingArg(name, arguments) ==
    RequiredArgs(name)[Min(MissingArgs(name, arguments))]

\* d.get(k, default) of a bag or column spec
GetOr(d, k, default) == IF k \in DOMAIN d THEN d[k] ELSE default

IsWrite(name) == name \in Range(WriteTools)

(***************************************************************************)
(* read_data's precondition: query.strip().upper().startswith("SELECT")    *)
(***************************************************************************)
Whitespace == {" ", "\t", "\n"}

RECURSIVE LStrip(_)
LStrip(s) ==
    IF Len(s) > 0 /\ s[1] \in Whitespace THEN LStrip(Tail(s)) ELSE s

RECURSIVE RStrip(_)
RStrip(s) ==
    IF Len(s) > 0 /\ s[Len(s)] \in Whitespace
    THEN RStrip(SubSeq(s, 1, Len(s) - 1)) ELSE s

\* Strip of a check that forgot .strip().
StripNothing(s) == s

Strip(s) == RStrip(LStrip(s))

UpperChar(c) ==
    CASE c = "s" -> "S" [] c = "e" -> "E" [] c = "l" -> "L" [] c = "c" -> "C"
      [] c = "t" -> "T" [] c = "i" -> "I" [] c = "n" -> "N" [] c = "r" -> "R"
      [] c = "x" -> "X" [] OTHER -> c

Upper(s) == [i \in 1..Len(s) |-> UpperChar(s[i])]

StartsWith(s, prefix) ==
    Len(s) >= Len(prefix) /\ SubSeq(s, 1, Len(prefix)) = prefix

SelectKeyword == <<"S", "E", "L", "E", "C", "T">>

read_data_accepts(query) == StartsWith(Upper(Strip(query)), SelectKeyword)

SelectRequired == <<"Query must start with SELECT">>

(***************************************************************************)
(* The handlers' bodies between get_connection and commit: the i-th thing  *)
(* the try block does with the cursor. A step executes a statement, or     *)
(* raises while building it, or returns early.                             *)
(***************************************************************************)
Exec(sql, values, last) ==
    [kind |-> "execute", sql |-> sql, values |-> values, last |-> last,
     text |-> <<>>]
Raise(text) ==
    [kind |-> "raise", sql |-> <<>>, values |-> <<>>, last |-> TRUE,
     text |-> text]
Return(text) ==
    [kind |-> "return", sql |-> <<>>, values |-> <<>>, last |-> TRUE,
     text |-> text]

Placeholders(n, sep) == Join([j \in 1..n |-> <<"%s">>], sep)

list_tables_step(arguments) ==
    LET schemas == GetOr(arguments, "parameters", <<>>)
    IN IF Len(schemas) > 0
       THEN Exec(<<"SELECT TABLE_SCHEMA, TABLE_NAME FROM INFORMATION_SCHEMA.TABLES WHERE TABLE_TYPE = 'BASE TABLE' AND TABLE_SCHEMA IN (">>
                    \o Placeholders(Len(schemas), <<",">>)
                    \o <<") ORDER BY TABLE_SCHEMA, TABLE_NAME">>,
                 schemas, TRUE)
       ELSE Exec(<<"SELECT TABLE_SCHEMA, TABLE_NAME FROM INFORMATION_SCHEMA.TABLES WHERE TABLE_TYPE = 'BASE TABLE' ORDER BY TABLE_SCHEMA, TABLE_NAME">>,
                 <<>>, TRUE)

describe_table_step(arguments) ==
    Exec(<<"SELECT COLUMN_NAME, DATA_TYPE, CHARACTER_MAXIMUM_LENGTH, IS_NULLABLE, COLUMN_DEFAULT FROM INFORMATION_SCHEMA.COLUMNS WHERE TABLE_NAME = %s ORDER BY ORDINAL_POSITION">>,
         <<arguments.tableName>>, TRUE)

read_data_step(arguments) == Exec(arguments.query, <<>>, TRUE)

\* records = [data] if isinstance(data, dict) else data
Records(data) == IF data.kind = "dict" THEN <<data.dict>> ELSE data.list

insert_query(table_name, columns) ==
    <<"INSERT INTO ">> \o table_name \o <<" (">> \o Join(columns, <<",">>)
        \o <<") VALUES (">> \o Placeholders(Len(columns), <<",">>) \o <<")">>

insert_data_step(arguments, i) ==
    LET records == Records(arguments.data)
    IN IF Len(records) = 0 THEN Return(<<"No data to insert">>)
       ELSE LET columns == Keys(records[1])
                record == records[i]
                absent == {j \in 1..Len(columns) : ~HasKey(record, columns[j])}
            IN IF absent # {}
               THEN Raise(KeyErrorText(columns[Min(absent)]))
               ELSE Exec(insert_query(arguments.tableName, columns),
                         [j \in 1..Len(columns) |-> Get(record, columns[j])],
                         i = Len(records))

update_query(table_name, updates, where_clause) ==
    <<"UPDATE ">> \o table_name \o <<" SET ">>
        \o Join([j \in 1..Len(updates) |-> Keys(updates)[j] \o <<" = %s">>],
                <<", ">>)
        \o <<" WHERE ">> \o where_clause

update_data_step(arguments) ==
    Exec(update_query(arguments.tableName, arguments.updates,
                      arguments.whereClause),
         Values(arguments.updates), TRUE)

col_def(col) ==
    col.name \o <<" ">> \o col.type
        \o (IF ~GetOr(col, "nullable", TRUE) THEN <<" NOT NULL">> ELSE <<>>)

pk_cols(columns) ==
    LET flagged == SelectSeq(columns, LAMBDA col : GetOr(col, "primaryKey", FALSE))
    IN [j \in 1..Len(flagged) |-> flagged[j].name]

\* col_defs of a loop that marks each flagged column PRIMARY KEY in place.
col_defs_inline(columns) ==
    [j \in 1..Len(columns) |->
        col_def(columns[j])
            \o (IF GetOr(columns[j], "primaryKey", FALSE)
                THEN <<" PRIMARY KEY">> ELSE <<>>)]

\* col_defs as it stands when the query is built
col_defs(columns) ==
    [j \in 1..Len(columns) |-> col_def(columns[j])]
        \o (IF Len(pk_cols(columns)) > 0
            THEN <<<<"PRIMARY KEY (">> \o Join(pk_cols(columns), <<", ">>)
                     \o <<")">>>>
            ELSE <<>>)

create_table_query(table_name, columns) ==
    <<"CREATE TABLE ">> \o table_name \o <<" (">>
        \o Join(col_defs(columns), <<", ">>) \o <<")">>

\* create_table_step of a loop that skips a column without name or type.
create_table_step_lenient(arguments) ==
    Exec(create_table_query(arguments.tableName,
                            SelectSeq(arguments.columns,
                                      LAMBDA col : {"name", "type"} \subseteq DOMAIN col)),
         <<>>, TRUE)

create_table_step(arguments) ==
    LET columns == arguments.columns
        bad == {j \in 1..Len(columns) :
                    "name" \notin DOMAIN columns[j]
                    \/ "type" \notin DOMAIN columns[j]}
    IN IF bad # {}
       THEN Raise(KeyErrorText(IF "name" \notin DOMAIN columns[Min(bad)]
                               THEN <<"name">> ELSE <<"type">>))
       ELSE Exec(create_table_query(arguments.tableName, columns), <<>>, TRUE)

create_index_query(table_name, index_name, columns, unique) ==
    <<"CREATE ">> \o (IF unique THEN <<"UNIQUE ">> ELSE <<>>) \o <<"INDEX ">>
        \o index_name \o <<" ON ">> \o table_name \o <<" (">>
        \o Join(columns, <<", ">>) \o <<")">>

create_index_step(arguments) ==
    Exec(create_index_query(arguments.tableName, arguments.indexName,
                            arguments.columns,
                            GetOr(arguments, "unique", FALSE)),
         <<>>, TRUE)

drop_table_query(table_name) == <<"DROP TABLE ">> \o table_name

drop_table_step(arguments) ==
    Exec(drop_table_query(arguments.tableName), <<>>, TRUE)

HandlerStep(name, arguments, i) ==
    CASE name = "list_table" -> list_tables_step(arguments)
      [] name = "describe_table" -> describe_table_step(arguments)
      [] name = "read_data" -> read_data_step(arguments)
      [] name = "insert_data" -> insert_data_step(arguments, i)
      [] name = "update_data" -> update_data_step(arguments)
      [] name = "create_table" -> create_table_step(arguments)
      [] name = "create_index" -> create_index_step(arguments)
      [] name = "drop_table" -> drop_table_step(arguments)

(***************************************************************************)
(* What the handlers return                                                *)
(***************************************************************************)
list_tables_result(tables) ==
    IF Len(tables) = 0 THEN <<"No tables found">>
    ELSE Join([j \in 1..Len(tables) |-> tables[j][1] \o <<".">> \o tables[j][2]],
              <<"\n">>)

col_info(c) ==
    c.col_name \o <<" ">> \o c.data_type
        \o (IF c.max_len # 0 THEN <<"(">> \o ToStr(c.max_len) \o <<")">> ELSE <<>>)
        \o (IF c.nullable = "NO" THEN <<" NOT NULL">> ELSE <<>>)
        \o (IF c.default # <<>> THEN <<" DEFAULT ">> \o c.default ELSE <<>>)

describe_table_result(table_name, columns) ==
    IF Len(columns) = 0 THEN <<"Table '">> \o table_name \o <<"' not found">>
    ELSE Join([j \in 1..Len(columns) |-> col_info(columns[j])], <<"\n">>)

\* json.dumps(rows, indent=2, default=str)
read_data_result(rows) ==
    IF Len(rows) = 0 THEN <<"No results found">>
    ELSE <<"[">> \o Join(rows, <<",">>) \o <<"]">>

\* The sets fetchall() draws from, and the text returned for what it drew.
Fetched(name) ==
    CASE name = "list_table" -> FetchedTables
      [] name = "describe_table" -> FetchedColumns
      [] OTHER -> FetchedRows

ReadResult(name, arguments, fetched) ==
    CASE name = "list_table" -> list_tables_result(fetched)
      [] name = "describe_table" ->
            describe_table_result(arguments.tableName, fetched)
      [] OTHER -> read_data_result(fetched)

\* The message a write handler returns after its commit.
WriteResult(name, arguments, rowcount) ==
    CASE name = "insert_data" ->
            <<"Inserted ">> \o ToStr(Len(Records(arguments.data)))
                \o <<" record(s)">>
      [] name = "update_data" ->
            <<"Updated ">> \o ToStr(rowcount) \o <<" record(s)">>
      [] name = "create_table" ->
            <<"Table '">> \o arguments.tableName \o <<"' created successfully">>
      [] name = "create_index" ->
            <<"Index '">> \o arguments.indexName \o <<"' created successfully">>
      [] OTHER ->
            <<"Table '">> \o arguments.tableName \o <<"' dropped successfully">>

(***************************************************************************)
(* State                                                                   *)
(***************************************************************************)
\* The requests the transport may have in flight; Spec runs them one at a
\* time through the first.
Req == {"r1", "r2"}
ConnIds == 1..MaxConn

VARIABLES
    READONLY,   \* the module-level flag, read from the environment at start
    catalog,    \* what the last list_tools call returned (<<>>: none yet)
    pc,         \* per request: where call_tool and its handler stand
    opname,     \* per request: the name given to call_tool
    bag,        \* per request: the arguments given to call_tool
    idx,        \* per request: the statement of the handler's loop up next
    conn,       \* per request: the handler's conn (0: None)
    error,      \* per request: str(e) of the exception in flight (<<>>: none)
    result,     \* per request: the text the handler returns
    fetched,    \* per request: what cursor.fetchall() returned (<<>>: nothing)
    response,   \* per request: the list of TextContent call_tool returned
    trace,      \* per request: the database calls of the current call_tool
    before,     \* per request: committed, as it was when call_tool began
    nconn,      \* connections opened so far
    open,       \* the connections opened and not yet closed
    pending,    \* per connection: statements executed and not yet committed
    committed   \* statements committed to the database so far

perCall == <<pc, opname, bag, idx, conn, error, result, fetched, response, trace,
            before>>
db == <<nconn, open, pending, committed>>
vars == <<READONLY, catalog, perCall, db>>

Event(op, c, ok, sql, values) ==
    [op |-> op, conn |-> c, ok |-> ok, sql |-> sql, values |-> values]
DbEvent(op, c, ok) == Event(op, c, ok, <<>>, <<>>)

TextContent(text) == [type |-> "text", text |-> text]
UnknownResponse(name) == <<TextContent(<<"Unknown tool: ", name>>)>>
ErrorResponse(e) == <<TextContent(<<"Error occurred: ">> \o e)>>
ResultResponse(res) == <<TextContent(res)>>

Init ==
    /\ READONLY \in BOOLEAN
    /\ catalog = <<>>
    /\ pc = [r \in Req |-> "idle"]
    /\ opname = [r \in Req |-> "list_table"]
    /\ bag = [r \in Req |-> <<>>]
    /\ idx = [r \in Req |-> 1]
    /\ conn = [r \in Req |-> 0]
    /\ error = [r \in Req |-> NoError]
    /\ result = [r \in Req |-> <<>>]
    /\ fetched = [r \in Req |-> <<>>]
    /\ response = [r \in Req |-> <<>>]
    /\ trace = [r \in Req |-> <<>>]
    /\ before = [r \in Req |-> 0]
    /\ nconn = 0
    /\ open = {}
    /\ pending = [c \in ConnIds |-> 0]
    /\ committed = 0

(***************************************************************************)
(* list_tools                                                              *)
(***************************************************************************)
ListTools ==
    /\ catalog' = list_tools(READONLY)
    /\ UNCHANGED <<READONLY, perCall, db>>

(***************************************************************************)
(* call_tool: the dispatch                                                 *)
(***************************************************************************)
\* Where the call goes once the elif chain picked a handler branch.
Entry(name, arguments) ==
    IF MissingArgs(name, arguments) # {}
    THEN [pc |-> "respond",
          error |-> KeyErrorText(<<FirstMissingArg(name, arguments)>>)]
    ELSE IF name = "read_data" /\ ~read_data_accepts(arguments.query)
    THEN [pc |-> "respond", error |-> SelectRequired]
    ELSE [pc |-> "connect", error |-> NoError]

Begin(r, name, arguments) ==
    /\ opname' = [opname EXCEPT ![r] = name]
    /\ bag' = [bag EXCEPT ![r] = arguments]
    /\ idx' = [idx EXCEPT ![r] = 1]
    /\ conn' = [conn EXCEPT ![r] = 0]
    /\ result' = [result EXCEPT ![r] = <<>>]
    /\ fetched' = [fetched EXCEPT ![r] = <<>>]
    /\ trace' = [trace EXCEPT ![r] = <<>>]
    /\ before' = [before EXCEPT ![r] = committed]
    /\ UNCHANGED <<READONLY, catalog, db>>

\* The else branch: return "Unknown tool: ..."
CallUnknownOf(r, names, bags) ==
    /\ pc[r] = "idle"
    /\ \E name \in names : \E arguments \in bags[name] :
        /\ ~Routed(name, READONLY)
        /\ Begin(r, name, arguments)
        /\ pc' = [pc EXCEPT ![r] = "done"]
        /\ error' = [error EXCEPT ![r] = NoError]
        /\ response' = [response EXCEPT ![r] = UnknownResponse(name)]

CallUnknown(r) == CallUnknownOf(r, Names, [name \in Names |-> ArgBags(name)])

\* A handler branch: evaluate the arguments and enter the handler.
CallHandlerOf(r, names, bags) ==
    /\ pc[r] = "idle"
    /\ \E name \in names : \E arguments \in bags[name] :
        /\ Routed(name, READONLY)
        /\ Begin(r, name, arguments)
        /\ pc' = [pc EXCEPT ![r] = Entry(name, arguments).pc]
        /\ error' = [error EXCEPT ![r] = Entry(name, arguments).error]
        /\ response' = [response EXCEPT ![r] = <<>>]

CallHandler(r) == CallHandlerOf(r, Names, [name \in Names |-> ArgBags(name)])

(***************************************************************************)
(* The handlers: conn = get_connection(); try ... except ... finally       *)
(***************************************************************************)
\* OnException of a handler whose except clause forgot conn.rollback().
OnExceptionNoRollback(name) == "close"

\* Where an exception raised inside the try block goes: the except clause of
\* a write handler rolls back, a read handler has only its finally.
\* OnException of a handler that tries its statement again.
OnExceptionRetry(name) == "execute"

OnException(name) == IF IsWrite(name) THEN "rollback" ELSE "close"

\* AfterExecute of a loop that commits inside its body.
AfterExecuteCommitEach(name, last) == IF IsWrite(name) THEN "commit" ELSE "close"

\* Where a statement that executed leads.
AfterExecute(name, last) ==
    IF ~last THEN "execute" ELSE IF IsWrite(name) THEN "commit" ELSE "close"

\* AfterRollback of a handler that closes in its try block, not in a finally.
AfterRollbackNoFinally(c) == "respond"

\* Where the except clause leads once rollback was called: the finally.
AfterRollback(c) == IF c # 0 THEN "close" ELSE "respond"

\* str(e) of the exception leaving the except clause: its bare raise
\* re-raises the caught one, unless conn.rollback() raised first.
Reraised(caught, rollbackOk) == IF rollbackOk THEN caught ELSE RollbackError

Log(r, e) == [trace EXCEPT ![r] = Append(trace[r], e)]

\* NewConn of a get_connection that hands out a pooled connection.
PooledConn(n, opened) == IF opened # {} THEN Min(opened) ELSE n + 1

\* pymssql.connect(...) returns a connection of its own on every call.
NewConn(n, opened) == n + 1

\* AfterConnectFailure of handlers whose except and finally lack "if conn:".
AfterConnectFailureUnguarded(name) == OnException(name)

\* get_connection() raised inside the try: conn is still None, so the except
\* clause skips rollback and re-raises, and the finally skips close.
AfterConnectFailure(name) == "respond"

GetConnection(r) ==
    /\ pc[r] = "connect"
    /\ \/ /\ nconn < MaxConn
          /\ nconn' = nconn + 1
          /\ open' = open \cup {NewConn(nconn, open)}
          /\ conn' = [conn EXCEPT ![r] = NewConn(nconn, open)]
          /\ trace' = Log(r, DbEvent("connect", NewConn(nconn, open), TRUE))
          /\ pc' = [pc EXCEPT ![r] = "execute"]
          /\ UNCHANGED error
       \/ /\ trace' = Log(r, DbEvent("connect", 0, FALSE))
          /\ error' = [error EXCEPT ![r] = ConnectError]
          /\ pc' = [pc EXCEPT ![r] = AfterConnectFailure(opname[r])]
          /\ UNCHANGED <<nconn, open, conn>>
    /\ UNCHANGED <<READONLY, catalog, fetched, opname, bag, idx, result, response,
                   before, pending, committed>>

Execute(r) ==
    LET step == HandlerStep(opname[r], bag[r], idx[r])
        c == conn[r]
    IN
    /\ pc[r] = "execute"
    /\ \/ /\ step.kind = "return"
          /\ result' = [result EXCEPT ![r] = step.text]
          /\ pc' = [pc EXCEPT ![r] = "close"]
          /\ UNCHANGED <<error, trace, idx, pending, fetched>>
       \/ /\ step.kind = "raise"
          /\ error' = [error EXCEPT ![r] = step.text]
          /\ pc' = [pc EXCEPT ![r] = OnException(opname[r])]
          /\ UNCHANGED <<result, trace, idx, pending, fetched>>
       \/ /\ step.kind = "execute"
          /\ trace' = Log(r, Event("execute", c, TRUE, step.sql, step.values))
          /\ pending' = [pending EXCEPT ![c] = @ + 1]
          /\ pc' = [pc EXCEPT ![r] = AfterExecute(opname[r], step.last)]
          /\ idx' = [idx EXCEPT ![r] = IF step.last THEN @ ELSE @ + 1]
          /\ IF step.last /\ ~IsWrite(opname[r])
             THEN \E rows \in Fetched(opname[r]) :
                    /\ fetched' = [fetched EXCEPT ![r] = rows]
                    /\ result' = [result EXCEPT
                                    ![r] = ReadResult(opname[r], bag[r], rows)]
             ELSE UNCHANGED <<result, fetched>>
          /\ UNCHANGED error
       \/ /\ step.kind = "execute"
          /\ trace' = Log(r, Event("execute", c, FALSE, step.sql, step.values))
          /\ error' = [error EXCEPT ![r] = ExecuteError]
          /\ pc' = [pc EXCEPT ![r] = OnException(opname[r])]
          /\ UNCHANGED <<result, idx, pending, fetched>>
    /\ UNCHANGED <<READONLY, catalog, opname, bag, conn, response, before,
                   nconn, open, committed>>

Commit(r) ==
    LET c == conn[r] IN
    /\ pc[r] = "commit"
    /\ \/ /\ trace' = Log(r, DbEvent("commit", c, TRUE))
          /\ committed' = committed + pending[c]
          /\ pending' = [pending EXCEPT ![c] = 0]
          /\ \E rowcount \in (IF opname[r] = "update_data" THEN RowCounts ELSE {0}) :
                result' = [result EXCEPT
                             ![r] = WriteResult(opname[r], bag[r], rowcount)]
          /\ pc' = [pc EXCEPT ![r] = "close"]
          /\ UNCHANGED error
       \/ /\ trace' = Log(r, DbEvent("commit", c, FALSE))
          /\ error' = [error EXCEPT ![r] = CommitError]
          /\ pc' = [pc EXCEPT ![r] = OnException(opname[r])]
          /\ UNCHANGED <<result, pending, committed>>
    /\ UNCHANGED <<READONLY, catalog, fetched, opname, bag, idx, conn, response, before,
                   nconn, open>>

Rollback(r) ==
    LET c == conn[r] IN
    /\ pc[r] = "rollback"
    /\ \E ok \in BOOLEAN :
          /\ trace' = Log(r, DbEvent("rollback", c, ok))
          /\ pending' = [pending EXCEPT ![c] = IF ok THEN 0 ELSE @]
          /\ error' = [error EXCEPT ![r] = Reraised(@, ok)]
    /\ pc' = [pc EXCEPT ![r] = AfterRollback(c)]
    /\ UNCHANGED <<READONLY, catalog, fetched, opname, bag, idx, conn, result, response,
                   before, nconn, open, committed>>

\* finally: conn.close(). The connection counts as released once close() was
\* called on it, whether or not the call raised; the server discards what
\* the connection left uncommitted; an exception raised by close replaces
\* whatever was in flight.
Close(r) ==
    LET c == conn[r] IN
    /\ pc[r] = "close"
    /\ \E ok \in BOOLEAN :
          /\ trace' = Log(r, DbEvent("close", c, ok))
          /\ error' = [error EXCEPT ![r] = IF ok THEN @ ELSE CloseError]
    /\ open' = open \ {c}
    /\ pending' = [pending EXCEPT ![c] = 0]
    /\ pc' = [pc EXCEPT ![r] = "respond"]
    /\ UNCHANGED <<READONLY, catalog, fetched, opname, bag, idx, conn, result, response,
                   before, nconn, committed>>

\* Reply of a call_tool whose except clause returns the bare str(e).
ReplyNoPrefix(e, res) == IF e # NoError THEN ResultResponse(e) ELSE ResultResponse(res)

\* call_tool's last two returns: the handler's result, or the except clause.
Reply(e, res) == IF e # NoError THEN ErrorResponse(e) ELSE ResultResponse(res)

Respond(r) ==
    /\ pc[r] = "respond"
    /\ response' = [response EXCEPT ![r] = Reply(error[r], result[r])]
    /\ pc' = [pc EXCEPT ![r] = "done"]
    /\ UNCHANGED <<READONLY, catalog, fetched, opname, bag, idx, conn, error, result,
                   trace, before, db>>

\* The server hands the response to the caller; the call's frame is gone.
Deliver(r) ==
    /\ pc[r] = "done"
    /\ pc' = [pc EXCEPT ![r] = "idle"]
    /\ opname' = [opname EXCEPT ![r] = "list_table"]
    /\ bag' = [bag EXCEPT ![r] = <<>>]
    /\ idx' = [idx EXCEPT ![r] = 1]
    /\ conn' = [conn EXCEPT ![r] = 0]
    /\ error' = [error EXCEPT ![r] = NoError]
    /\ result' = [result EXCEPT ![r] = <<>>]
    /\ fetched' = [fetched EXCEPT ![r] = <<>>]
    /\ response' = [response EXCEPT ![r] = <<>>]
    /\ trace' = [trace EXCEPT ![r] = <<>>]
    /\ before' = [before EXCEPT ![r] = committed]
    /\ UNCHANGED <<READONLY, catalog, db>>

Step(r) ==
    \/ CallUnknown(r)
    \/ CallHandler(r)
    \/ GetConnection(r)
    \/ Execute(r)
    \/ Commit(r)
    \/ Rollback(r)
    \/ Close(r)
    \/ Respond(r)
    \/ Deliver(r)

Next == ListTools \/ Step("r1")

Spec == Init /\ [][Next]_vars

(***************************************************************************)
(* Concurrent requests: the transport may have several call_tool requests  *)
(* in flight, their steps interleaved in any order. The inputs are a few   *)
(* representative calls.                                                   *)
(***************************************************************************)
ConcNames == {"insert_data", "read_data", "bogus"}

ConcBags(name) ==
    CASE name = "insert_data" ->
            {[tableName |-> SafeTable, data |-> d] :
                d \in {[kind |-> "list", list |-> <<RowA1, RowA2>>],
                       [kind |-> "list", list |-> <<RowA1, RowB1>>],
                       [kind |-> "dict", dict |-> RowA1]}}
      [] name = "read_data" ->
            {[query |-> <<"S", "E", "L", "E", "C", "T", " ", "1">>]}
      [] OTHER -> {[tableName |-> SafeTable]}

CallUnknownConc(r) == CallUnknownOf(r, ConcNames, [name \in ConcNames |-> ConcBags(name)])

CallHandlerConc(r) == CallHandlerOf(r, ConcNames, [name \in ConcNames |-> ConcBags(name)])

StepConc(r) ==
    \/ CallUnknownConc(r)
    \/ CallHandlerConc(r)
    \/ GetConnection(r)
    \/ Execute(r)
    \/ Commit(r)
    \/ Rollback(r)
    \/ Close(r)
    \/ Respond(r)
    \/ Deliver(r)

NextConc == \E r \in Req : StepConc(r)

SpecConc == Init /\ [][NextConc]_vars

(***************************************************************************)
(* Reading a call's trace and response                                     *)
(***************************************************************************)
Events(r, op) == {i \in 1..Len(trace[r]) : trace[r][i].op = op}
Failed(r, op) == {i \in Events(r, op) : ~trace[r][i].ok}
Prefix(resp) == resp[1].text[1]
IsErrorResponse(resp) == Prefix(resp) = "Error occurred: "
IsUnknownResponse(resp) == Prefix(resp) = "Unknown tool: "
IsSuccess(resp) == ~IsErrorResponse(resp) /\ ~IsUnknownResponse(resp)
Mutating == {"insert_data", "update_data", "create_table", "create_index",
             "drop_table"}
InCall(r) == pc[r] # "idle"

(***************************************************************************)
(* C1: with the read-only flag set, call_tool given any of the five        *)
(* mutating names and any argument bag is answered at once: it acquires no *)
(* connection and calls nothing on the database.                           *)
(***************************************************************************)
C1_ReadOnlyRejects ==
    \A r \in Req :
        (READONLY /\ InCall(r) /\ opname[r] \in Mutating) =>
            /\ pc[r] = "done"
            /\ trace[r] = <<>>
            /\ conn[r] = 0
            /\ Len(response[r]) = 1
            /\ committed = before[r]

C1_Witness ==
    /\ READONLY
    /\ pc["r1"] = "done"
    /\ opname["r1"] = "drop_table"
    /\ bag["r1"] = [tableName |-> SafeTable]

\* the statements the handler executes when nothing fails
Planned(r) ==
    IF opname[r] = "insert_data" THEN Len(Records(bag[r].data)) ELSE 1

(***************************************************************************)
(* C2: in a mutating call, commit is called only once every execute of the *)
(* call has succeeded; when an execute or the commit fails, rollback is    *)
(* called on the same connection before call_tool answers; and a call that *)
(* answers with success has not rolled back.                               *)
(***************************************************************************)
C2_CommitRollbackOrder ==
    \A r \in Req :
        (InCall(r) /\ opname[r] \in Mutating) =>
            /\ \A i \in Events(r, "commit") :
                  /\ Cardinality({j \in Events(r, "execute") : j < i}) = Planned(r)
                  /\ \A j \in Events(r, "execute") :
                        j < i /\ trace[r][j].ok /\ trace[r][j].conn = trace[r][i].conn
            /\ (pc[r] \in {"respond", "done"}) =>
                  \A i \in Failed(r, "execute") \cup Failed(r, "commit") :
                      \E j \in Events(r, "rollback") :
                          j > i /\ trace[r][j].conn = trace[r][i].conn
            /\ (pc[r] = "done" /\ IsSuccess(response[r])) =>
                  Events(r, "rollback") = {}

C2_Witness ==
    /\ pc["r1"] = "done"
    /\ opname["r1"] = "update_data"
    /\ Failed("r1", "commit") # {}
    /\ Events("r1", "rollback") # {}
    /\ IsErrorResponse(response["r1"])

ExecuteEvents(r) == SelectSeq(trace[r], LAMBDA e : e.op = "execute")

(***************************************************************************)
(* C3: an insert of N >= 1 rows that succeeds has executed exactly N       *)
(* INSERT statements, row by row in order, on one connection, and          *)
(* committed once, after the last; when the k-th execute fails there are   *)
(* k executes and no commit, rollback is called, nothing of the call stays *)
(* pending and the committed state is what it was before the call.         *)
(***************************************************************************)
C3_InsertAtomic ==
    \A r \in Req :
        (pc[r] = "done" /\ opname[r] = "insert_data" /\ conn[r] # 0
            /\ Len(Records(bag[r].data)) >= 1) =>
            LET records == Records(bag[r].data)
                N == Len(records)
                execs == ExecuteEvents(r)
                columns == [j \in 1..Len(records[1]) |-> records[1][j][1]]
            IN
            /\ IsSuccess(response[r]) =>
                  /\ Len(execs) = N
                  /\ \A k \in 1..N :
                        /\ execs[k].ok
                        /\ execs[k].conn = conn[r]
                        /\ execs[k].sql[1] = "INSERT INTO "
                        /\ execs[k].values =
                              [j \in 1..Len(columns) |-> Get(records[k], columns[j])]
                  /\ Events(r, "commit") = {N + 2}
                  /\ committed = before[r] + N
            /\ \A k \in 1..Len(execs) : ~execs[k].ok =>
                  /\ Len(execs) = k
                  /\ \A j \in 1..(k - 1) : execs[j].ok
                  /\ Events(r, "commit") = {}
                  /\ Events(r, "rollback") # {}
                  /\ pending[conn[r]] = 0
                  /\ committed = before[r]

C3_Witness ==
    /\ pc["r1"] = "done"
    /\ opname["r1"] = "insert_data"
    /\ conn["r1"] # 0
    /\ bag["r1"].data.kind = "list"
    /\ bag["r1"].data.list = <<RowA1, RowA2>>
    /\ committed = before["r1"]
    /\ Len(ExecuteEvents("r1")) = 2
    /\ ExecuteEvents("r1")[1].ok
    /\ ~ExecuteEvents("r1")[2].ok

(***************************************************************************)
(* C4: when call_tool answers, close has been called on every connection   *)
(* the call acquired, whichever way the handler was left; once the calls   *)
(* made so far have all answered, no connection is open.                   *)
(***************************************************************************)
C4_AlwaysClosed ==
    /\ \A r \in Req :
          (pc[r] \in {"respond", "done"}) =>
              \A i \in Events(r, "connect") :
                  trace[r][i].ok =>
                      /\ \E j \in Events(r, "close") :
                            j > i /\ trace[r][j].conn = trace[r][i].conn
                      /\ trace[r][i].conn \notin open
    /\ (\A r \in Req : pc[r] \in {"idle", "done"}) => open = {}

C4_Witness ==
    /\ pc["r1"] = "done"
    /\ Failed("r1", "execute") # {}
    /\ Failed("r1", "rollback") # {}
    /\ Events("r1", "close") # {}

AnyFailure(r) == \E i \in 1..Len(trace[r]) : ~trace[r][i].ok

(***************************************************************************)
(* C5: whatever the name, the bag and the database calls that fail,        *)
(* call_tool answers with exactly one text item; when anything raised the  *)
(* text is "Error occurred: " and the error's text, and no other answer    *)
(* begins so.                                                              *)
(***************************************************************************)
C5_OneTextResponse ==
    \A r \in Req :
        (pc[r] = "done") =>
              /\ Len(response[r]) = 1
              /\ response[r][1].type = "text"
              /\ (AnyFailure(r) \/ error[r] # NoError) =>
                    /\ IsErrorResponse(response[r])
                    /\ response[r][1].text = <<"Error occurred: ">> \o error[r]
                    /\ error[r] # NoError
              /\ IsErrorResponse(response[r]) => error[r] # NoError

C5_Witness ==
    /\ pc["r1"] = "done"
    /\ Failed("r1", "close") # {}
    /\ Failed("r1", "rollback") = {}
    /\ response["r1"] = ErrorResponse(CloseError)

(***************************************************************************)
(* C6: when an execute of a write handler fails and the rollback that      *)
(* follows fails too (and close does not), the answer carries the execute  *)
(* error, not the rollback's.                                              *)
(***************************************************************************)
C6_OriginalErrorReported ==
    \A r \in Req :
        (pc[r] = "done" /\ opname[r] \in Mutating
            /\ Failed(r, "execute") # {} /\ Failed(r, "rollback") # {}
            /\ Failed(r, "close") = {}) =>
            response[r] = ErrorResponse(ExecuteError)

(***************************************************************************)
(* C7: with the read-only flag set, the answer to a mutating name is not   *)
(* of the kind given to a name that is none of the eight operations.       *)
(***************************************************************************)
C7_PolicyViolationDistinct ==
    \A r \in Req :
        (READONLY /\ pc[r] = "done" /\ opname[r] \in Mutating) =>
            ~IsUnknownResponse(response[r])

(***************************************************************************)
(* C8: list_tools returns list_table, describe_table, read_data and        *)
(* nothing else when the read-only flag is set, and those three followed   *)
(* by the five mutating operations when it is not.                         *)
(***************************************************************************)
C8_CatalogByPolicy ==
    catalog # <<>> =>
        /\ SubSeq(catalog, 1, 3) = <<"list_table", "describe_table", "read_data">>
        /\ READONLY => Len(catalog) = 3
        /\ ~READONLY =>
              /\ Len(catalog) = 8
              /\ {catalog[i] : i \in 4..8} = Mutating

C8_Witness == READONLY /\ catalog # <<>>

\* the names a complete bag puts into the statement's text
BagIdentifiers(name, arguments) ==
    {arguments.tableName}
    \cup (IF name = "insert_data" /\ Len(Records(arguments.data)) > 0
          THEN Range(Keys(Records(arguments.data)[1])) ELSE {})
    \cup (IF name = "update_data" THEN Range(Keys(arguments.updates)) ELSE {})
    \cup (IF name = "create_table"
          THEN {arguments.columns[j].name :
                   j \in {k \in 1..Len(arguments.columns) :
                             "name" \in DOMAIN arguments.columns[k]}}
          ELSE {})
    \cup (IF name = "create_index"
          THEN {arguments.indexName} \cup Range(arguments.columns) ELSE {})

(***************************************************************************)
(* C9: a mutating call one of whose identifiers (table, column or index    *)
(* name) holds a statement terminator or a quote executes no statement.    *)
(***************************************************************************)
C9_UnsafeIdentifierRejected ==
    \A r \in Req :
        (InCall(r) /\ opname[r] \in Mutating
            /\ MissingArgs(opname[r], bag[r]) = {}
            /\ \E ident \in BagIdentifiers(opname[r], bag[r]) : IsUnsafe(ident)) =>
            Events(r, "execute") = {}

\* the queries of the model that start with SELECT once trimmed and uppercased
SelectQueries ==
    { <<"S", "E", "L", "E", "C", "T", " ", "1">>,
      <<" ", "s", "e", "l", "e", "c", "t", " ", "1", " ">>,
      <<"\n", "\t", "S", "e", "L", "e", "c", "t">>,
      <<"S", "E", "L", "E", "C", "T", "E", "D">> }

(***************************************************************************)
(* C10: read_data given a query that, trimmed and uppercased, does not     *)
(* start with SELECT raises "Query must start with SELECT" with no         *)
(* connection acquired and nothing executed; given one that does, it goes  *)
(* on to the database and what it executes is the query as given.          *)
(***************************************************************************)
C10_ReadRequiresSelect ==
    \A r \in Req :
        (InCall(r) /\ opname[r] = "read_data" /\ "query" \in DOMAIN bag[r]) =>
            IF bag[r].query \in SelectQueries
            THEN /\ error[r] # SelectRequired
                 /\ pc[r] = "connect" \/ Events(r, "connect") # {}
                 /\ \A i \in Events(r, "execute") : trace[r][i].sql = bag[r].query
                 /\ (conn[r] # 0 /\ pc[r] \notin {"connect", "execute"}) =>
                        Events(r, "execute") # {}
            ELSE /\ trace[r] = <<>>
                 /\ conn[r] = 0
                 /\ error[r] = SelectRequired
                 /\ pc[r] \in {"respond", "done"}
                 /\ (pc[r] = "done") =>
                        response[r] = <<[type |-> "text",
                                         text |-> <<"Error occurred: ",
                                                    "Query must start with SELECT">>]>>

C10_Witness ==
    /\ pc["r1"] = "done"
    /\ opname["r1"] = "read_data"
    /\ bag["r1"] = [query |-> <<" ", "s", "e", "l", "e", "c", "t", " ", "1", " ">>]
    /\ Events("r1", "execute") # {}
    /\ IsSuccess(response["r1"])

(***************************************************************************)
(* C11: update_data given an empty updates mapping acquires no connection  *)
(* and executes no UPDATE.                                                 *)
(***************************************************************************)
C11_EmptyUpdateRejected ==
    \A r \in Req :
        (InCall(r) /\ opname[r] = "update_data"
            /\ MissingArgs(opname[r], bag[r]) = {}
            /\ Len(bag[r].updates) = 0) =>
            trace[r] = <<>>

\* the rows of an insert that lack a column of the first row
Offending(records) ==
    {i \in 1..Len(records) :
        \E j \in 1..Len(records[1]) : ~HasKey(records[i], records[1][j][1])}

(***************************************************************************)
(* C12: insert_data given rows one of which lacks a column of the first    *)
(* row executes no INSERT of that call, wherever the offending row stands. *)
(***************************************************************************)
C12_RowMismatchFailsFast ==
    \A r \in Req :
        (InCall(r) /\ opname[r] = "insert_data"
            /\ MissingArgs(opname[r], bag[r]) = {}
            /\ Offending(Records(bag[r].data)) # {}) =>
            Events(r, "execute") = {}

(***************************************************************************)
(* C13: create_table given an empty columns sequence executes no CREATE    *)
(* TABLE statement.                                                        *)
(***************************************************************************)
C13_EmptyColumnsRejected ==
    \A r \in Req :
        (InCall(r) /\ opname[r] = "create_table"
            /\ MissingArgs(opname[r], bag[r]) = {}
            /\ Len(bag[r].columns) = 0) =>
            Events(r, "execute") = {}

\* the bag lacks a field its operation declares required
LacksRequired(name, arguments) ==
    \/ DeclaredRequired(name) \ DOMAIN arguments # {}
    \/ /\ name = "create_table"
       /\ "columns" \in DOMAIN arguments
       /\ \E j \in 1..Len(arguments.columns) :
             DeclaredColumnRequired \ DOMAIN arguments.columns[j] # {}

\* the answers that name a missing field
MissingFieldResponses(name) ==
    {<<[type |-> "text", text |-> <<"Error occurred: ", "'", f, "'">>]>> :
        f \in DeclaredRequired(name) \cup DeclaredColumnRequired}

Uncommitted(r) ==
    IF \E i \in 1..Len(trace[r]) :
          /\ trace[r][i].op \in {"commit", "rollback", "close"}
          /\ trace[r][i].ok \/ trace[r][i].op = "close"
    THEN 0
    ELSE Cardinality({i \in Events(r, "execute") : trace[r][i].ok})

\* every database call of a request is on its own connection, which no
\* other request holds, and what is pending on it is what the request left
C15_OwnConnection ==
    /\ \A r \in Req : \A i \in 1..Len(trace[r]) :
          trace[r][i].conn \in {0, conn[r]}
    /\ \A r, q \in Req : (r # q /\ conn[r] # 0) => conn[r] # conn[q]
    /\ \A r \in Req : conn[r] # 0 => pending[conn[r]] = Uncommitted(r)
    /\ \A c \in ConnIds : (\A r \in Req : conn[r] # c) => pending[c] = 0

\* a step changes what is pending on a connection, or open, only as a call
\* of the request that holds it; a commit adds that request's statements only
C15_OwnTransaction ==
    /\ \A c \in ConnIds :
          (pending'[c] # pending[c] \/ (c \in open /\ c \notin open')) =>
              \E r \in Req : conn[r] = c /\ Len(trace'[r]) = Len(trace[r]) + 1
    /\ committed' # committed =>
          \E r \in Req :
              /\ pc[r] = "commit"
              /\ Len(trace'[r]) = Len(trace[r]) + 1
              /\ committed' = committed + Uncommitted(r)
    /\ committed' >= committed

(***************************************************************************)
(* C15: with requests interleaved in any order, every database call of a   *)
(* request is on a connection only that request holds; a rollback, commit  *)
(* or close changes what is pending on the caller's own connection only,   *)
(* and a commit adds to the database the caller's own statements only.     *)
(***************************************************************************)
C15_ConnectionPerRequest == []C15_OwnConnection /\ [][C15_OwnTransaction]_vars

C15_Witness ==
    /\ conn["r1"] \in open
    /\ conn["r2"] \in open
    /\ Failed("r1", "execute") # {}
    /\ Events("r1", "rollback") # {}
    /\ pending[conn["r2"]] > 0

\* describe_table ran its catalog query and fetched no row
DescribedNothing(r) ==
    /\ pc[r] = "done"
    /\ opname[r] = "describe_table"
    /\ Events(r, "execute") # {}
    /\ Failed(r, "execute") = {}
    /\ fetched[r] = <<>>

NotFoundResponse(table_name) ==
    <<[type |-> "text", text |-> <<"Table '">> \o table_name \o <<"' not found">>]>>

\* C16 as stated: describe_table whose catalog query returns no row answers
\* with the "not found" text, never with an error, and has closed its
\* connection.
C16_NotFoundNeverError ==
    \A r \in Req :
        DescribedNothing(r) =>
            /\ response[r] = NotFoundResponse(bag[r].tableName)
            /\ Events(r, "close") # {}

IsFlagged(col) == "primaryKey" \in DOMAIN col /\ col.primaryKey

RECURSIVE FlaggedNames(_)
\* the names of the columns flagged primaryKey, in declared order
FlaggedNames(columns) ==
    IF Len(columns) = 0 THEN <<>>
    ELSE (IF IsFlagged(Head(columns)) THEN <<Head(columns).name>> ELSE <<>>)
             \o FlaggedNames(Tail(columns))

\* the create_table calls that executed their statement, columns non-empty
CreatedTable(r) ==
    /\ InCall(r)
    /\ opname[r] = "create_table"
    /\ Events(r, "execute") # {}
    /\ Len(bag[r].columns) >= 1

(***************************************************************************)
(* C17: the statement create_table executes for a non-empty column         *)
(* sequence lists one definition per column, in the given order, followed  *)
(* by a PRIMARY KEY clause exactly when some column is flagged primaryKey; *)
(* the clause is the last element and names the flagged columns, and only  *)
(* those, in declared order.                                               *)
(***************************************************************************)
C17_SinglePrimaryKeyClause ==
    \A r \in Req :
        CreatedTable(r) =>
            LET columns == bag[r].columns
                n == Len(columns)
                defs == col_defs(columns)
                names == FlaggedNames(columns)
                sql == trace[r][CHOOSE i \in Events(r, "execute") : TRUE].sql
            IN
            /\ Cardinality(Events(r, "execute")) = 1
            /\ sql = <<"CREATE TABLE ">> \o bag[r].tableName \o <<" (">>
                        \o Join(defs, <<", ">>) \o <<")">>
            /\ Len(defs) = n + (IF Len(names) > 0 THEN 1 ELSE 0)
            /\ \A j \in 1..n :
                  /\ SubSeq(defs[j], 1, Len(columns[j].name) + 1)
                        = columns[j].name \o <<" ">>
                  /\ \A k \in 1..Len(defs[j]) :
                        defs[j][k] \notin {"PRIMARY KEY (", " PRIMARY KEY"}
            /\ Len(names) > 0 =>
                  defs[n + 1] = <<"PRIMARY KEY (">> \o Join(names, <<", ">>) \o <<")">>
            /\ Cardinality({k \in 1..Len(sql) : sql[k] = "PRIMARY KEY ("})
                  = (IF Len(names) > 0 THEN 1 ELSE 0)

C17_Witness ==
    /\ CreatedTable("r1")
    /\ trace["r1"][2].sql =
          <<"CREATE TABLE ", "t", " (", "a", " ", "I", "N", "T", ", ",
            "b", " ", "I", "N", "T", " NOT NULL", ", ",
            "PRIMARY KEY (", "a", ", ", "b", ")", ")">>

After(r, i) == {j \in 1..Len(trace[r]) : j > i}

(***************************************************************************)
(* C18: the events of one call are a connect, then executes, then at most  *)
(* one commit, at most one rollback and one close that is the last event,  *)
(* all on the one connection the call acquired; after a failed event       *)
(* nothing is executed, committed or connected again, no commit follows a  *)
(* rollback, and a finished call that connected has closed exactly once.   *)
(***************************************************************************)
C18_TraceShape ==
    \A r \in Req :
        InCall(r) =>
            LET t == trace[r] IN
            /\ Events(r, "connect") \subseteq {1}
            /\ Len(t) > 0 => t[1].op = "connect"
            /\ \A i \in 1..Len(t) :
                  t[i].op \in {"connect", "execute", "commit", "rollback", "close"}
            /\ \A i \in 2..Len(t) : t[1].ok /\ t[i].conn = t[1].conn
            /\ Cardinality(Events(r, "commit")) <= 1
            /\ Cardinality(Events(r, "rollback")) <= 1
            /\ Cardinality(Events(r, "close")) <= 1
            /\ Events(r, "close") \subseteq {Len(t)}
            /\ \A i \in Events(r, "execute") :
                  \A j \in Events(r, "commit") \cup Events(r, "rollback") : i < j
            /\ \A i \in Events(r, "rollback") :
                  \A j \in Events(r, "commit") : j < i
            /\ \A i \in 1..Len(t) :
                  ~t[i].ok =>
                      \A j \in After(r, i) : t[j].op \in {"rollback", "close"}
            /\ (pc[r] = "done" /\ Len(t) > 0 /\ t[1].ok) =>
                  Events(r, "close") = {Len(t)}

C18_Witness ==
    /\ pc["r1"] = "done"
    /\ Len(trace["r1"]) = 5
    /\ Failed("r1", "execute") = {3}
    /\ Events("r1", "rollback") = {4}

\* the call was answered by the else branch, no handler entered
Rejected(r) == pc[r] = "done" /\ response[r] = UnknownResponse(opname[r])

C19_Agree ==
    /\ \A name \in Names :
          Routed(name, READONLY) <=> name \in Range(list_tools(READONLY))
    /\ \A r \in Req :
          (InCall(r) /\ catalog # <<>>) =>
              (Rejected(r) <=> opname[r] \notin Range(catalog))

(***************************************************************************)
(* C19: in both policy states call_tool routes a name to a handler exactly *)
(* when list_tools advertises it, every other name being answered by the   *)
(* else branch, and no list_tools or call_tool step changes READONLY.      *)
(***************************************************************************)
C19_CatalogDispatcherAgree == []C19_Agree /\ [][READONLY' = READONLY]_vars

C19_Witness ==
    /\ READONLY
    /\ catalog = ReadTools
    /\ Rejected("r1")
    /\ opname["r1"] = "create_index"

(***************************************************************************)
(* C20: when get_connection raises, in whichever handler, the failed       *)
(* connect is the call's only event - no execute, commit, rollback or      *)
(* close is attempted - nothing is committed, and the caller receives the  *)
(* error response carrying the connection error.                           *)
(***************************************************************************)
C20_ConnectFailureTouchesNothing ==
    /\ \A r \in Req :
          (InCall(r) /\ Failed(r, "connect") # {}) =>
              /\ trace[r] = <<DbEvent("connect", 0, FALSE)>>
              /\ conn[r] = 0
              /\ pc[r] \in {"respond", "done"}
              /\ committed = before[r]
              /\ pc[r] = "done" => response[r] = ErrorResponse(ConnectError)
    /\ \A r \in Req : \A i \in 1..Len(trace[r]) :
          trace[r][i].conn = 0 => trace[r][i].op = "connect"

C20_Witness ==
    /\ pc["r1"] = "done"
    /\ opname["r1"] = "update_data"
    /\ Failed("r1", "connect") = {1}
    /\ nconn = 0
    /\ response["r1"] = ErrorResponse(ConnectError)

====
